---- MODULE Spec2Model ----
(***************************************************************************)
(* TOFE EEPROM tools: the atom container (tofe_eeprom.py) and the Opsis    *)
(* composite image (opsis_eeprom.py), modelled at the level of the bytes   *)
(* the ctypes structures read and write.                                   *)
(*                                                                         *)
(* Memory is a sequence of bytes; the byte at C offset o is mem[o + 1].    *)
(* A standalone container (AtomCommon, TOFEAtoms) owns its buffer, which   *)
(* ctypes.resize grows; the OpsisAtoms container is a from_address view    *)
(* into the 256-byte OpsisEEPROM image and cannot be resized.              *)
(***************************************************************************)
EXTENDS Integers, Sequences, FiniteSets, TLC

VARIABLES
    kind,   \* class of the container: "AtomCommon", "TOFEAtoms", "OpsisAtoms"
    mem,    \* the container's buffer, or the whole OpsisEEPROM image
    added,  \* history: the atoms add_atom has accepted since populate
    last,   \* history: the last call and how it ended
    prev    \* history: mem as it was when the last call started

vars == <<kind, mem, added, last, prev>>

----------------------------------------------------------------------------
(* Bytes and bit operations *)

RECURSIVE BitXor(_, _, _)
BitXor(a, b, n) ==
    IF n = 0 THEN 0
    ELSE (((a % 2) + (b % 2)) % 2) + 2 * BitXor(a \div 2, b \div 2, n - 1)

RECURSIVE BitOr(_, _, _)
BitOr(a, b, n) ==
    IF n = 0 THEN 0
    ELSE (IF (a % 2) + (b % 2) > 0 THEN 1 ELSE 0) + 2 * BitOr(a \div 2, b \div 2, n - 1)

XorNibble == [a \in 0..15 |-> [b \in 0..15 |-> BitXor(a, b, 4)]]

Xor8(a, b) == 16 * XorNibble[a \div 16][b \div 16] + XorNibble[(a % 16)][(b % 16)]

Or8(a, b) == BitOr(a, b, 8)

Min(a, b) == IF a < b THEN a ELSE b

Max(a, b) == IF a > b THEN a ELSE b

\* b[lo:] of a Python sequence, lo counted from 0 and from the end when negative
PySliceFrom(s, lo) ==
    LET start == IF lo < 0 THEN Max(0, Len(s) + lo) ELSE Min(lo, Len(s))
    IN  SubSeq(s, start + 1, Len(s))

RECURSIVE Reverse(_)
Reverse(s) == IF s = <<>> THEN <<>> ELSE Append(Reverse(Tail(s)), Head(s))

Fill(n, v) == [i \in 1..n |-> v]

\* memory m with the bytes b stored from offset off on
Put(m, off, b) == SubSeq(m, 1, off) \o b \o SubSeq(m, off + Len(b) + 1, Len(m))

\* the n bytes of m from offset off on
Get(m, off, n) == SubSeq(m, off + 1, off + n)

\* little-endian bytes of v in a field of n bytes (ctypes keeps the low bytes)
RECURSIVE LE(_, _)
LE(v, n) == IF n = 0 THEN <<>> ELSE <<(v % 256)>> \o LE(v \div 256, n - 1)

RECURSIVE FromLE(_)
FromLE(b) == IF b = <<>> THEN 0 ELSE Head(b) + 256 * FromLE(Tail(b))

----------------------------------------------------------------------------
(* Python's int has no width.  A non-negative int is the sequence of its   *)
(* base-65536 digits, least significant first, without a leading zero      *)
(* digit; 0 is the empty sequence.                                         *)

RECURSIVE int_norm(_)
int_norm(d) ==
    IF d # <<>> /\ d[Len(d)] = 0 THEN int_norm(SubSeq(d, 1, Len(d) - 1)) ELSE d

\* the int with the value of the number n
RECURSIVE int_of(_)
int_of(n) == IF n = 0 THEN <<>> ELSE <<(n % 65536)>> \o int_of(n \div 65536)

\* a < b
RECURSIVE int_lt(_, _)
int_lt(a, b) ==
    IF Len(a) # Len(b) THEN Len(a) < Len(b)
    ELSE IF a = <<>> THEN FALSE
    ELSE IF a[Len(a)] # b[Len(b)] THEN a[Len(a)] < b[Len(b)]
    ELSE int_lt(SubSeq(a, 1, Len(a) - 1), SubSeq(b, 1, Len(b) - 1))

\* (v >> 8 * j) & 0xff
int_byte(v, j) ==
    IF (j \div 2) + 1 > Len(v) THEN 0
    ELSE IF j % 2 = 0 THEN v[(j \div 2) + 1] % 256
    ELSE v[(j \div 2) + 1] \div 256

\* v >> 8
int_shr8(v) ==
    int_norm([i \in 1..Len(v) |->
        (v[i] \div 256) + 256 * (IF i < Len(v) THEN v[i + 1] % 256 ELSE 0)])

\* v | (b << i * 8), for a byte b
int_or_byte(v, b, i) ==
    int_norm([j \in 1..Max(Len(v), (i \div 2) + 1) |->
        BitOr(IF j <= Len(v) THEN v[j] ELSE 0,
              IF j # (i \div 2) + 1 THEN 0 ELSE IF i % 2 = 0 THEN b ELSE 256 * b,
              16)])

\* the bytes a ctypes integer field of w bytes keeps of v: the low ones,
\* little-endian
int_field(v, w) == [j \in 1..w |-> int_byte(v, j - 1)]

\* the int a little-endian field holds: byte i of d at bit 8 * i, from byte i on
RECURSIVE int_from(_, _, _)
int_from(d, i, v) ==
    IF i >= Len(d) THEN v ELSE int_from(d, i + 1, int_or_byte(v, d[i + 1], i))

----------------------------------------------------------------------------
(* crcmod.predefined.Crc('crc-8'): polynomial 0x107, not reflected,        *)
(* initial value 0, no final xor.                                          *)

Crc8Poly == 7

RECURSIVE crc8_shift(_, _)
crc8_shift(c, n) ==
    IF n = 0 THEN c
    ELSE crc8_shift(IF c >= 128 THEN Xor8((2 * c) % 256, Crc8Poly) ELSE 2 * c, n - 1)

Crc8Table == [x \in 0..255 |-> crc8_shift(x, 8)]

\* crc.update over b[lo..hi], starting from the value c: the bytes in order,
\* the first half of the range before the second
RECURSIVE Crc_update(_, _, _, _)
Crc_update(c, b, lo, hi) ==
    IF c \notin 0..255 \/ lo > hi THEN c
    ELSE IF lo = hi THEN Crc8Table[Xor8(c, b[lo])]
    ELSE Crc_update(Crc_update(c, b, lo, (lo + hi) \div 2), b, ((lo + hi) \div 2) + 1, hi)

\* the crcValue after update(before), update(after)
Crc8(before, after) ==
    Crc_update(Crc_update(0, before, 1, Len(before)), after, 1, Len(after))

----------------------------------------------------------------------------
(* Strings are sequences of code points; str.encode('utf-8') *)

utf8_char(c) ==
    IF c < 128 THEN <<c>>
    ELSE IF c < 2048 THEN <<192 + (c \div 64), 128 + (c % 64)>>
    ELSE <<224 + (c \div 4096), 128 + ((c \div 64) % 64), 128 + (c % 64)>>

RECURSIVE encode_utf8(_)
encode_utf8(s) == IF s = <<>> THEN <<>> ELSE utf8_char(Head(s)) \o encode_utf8(Tail(s))

SchemeSep == <<58, 47, 47>>

\* the text after the separator that starts at position i
AfterScheme(url, hits) ==
    SubSeq(url, (CHOOSE i \in hits : \A j \in hits : i <= j) + 3, Len(url))

\* "://" in url, and url.split("://", 1)[-1]
SchemeHits(url) ==
    {i \in 1..Len(url) : i + 2 <= Len(url) /\ SubSeq(url, i, i + 2) = SchemeSep}

\* the url setter's stripping of a scheme
StripScheme(url) ==
    IF SchemeHits(url) = {} THEN url ELSE AfterScheme(url, SchemeHits(url))

----------------------------------------------------------------------------
(* The registry of atom classes: ATOMS, and the loop that gives each class *)
(* its ORDER and TYPE and fills ATOMS_TYPES.                               *)

ATOMS == <<
    <<"DesignerID",            "AtomFormatURL">>,
    <<"ManufacturerID",        "AtomFormatURL">>,
    <<"ProductID",             "AtomFormatURL">>,
    <<"ProductVersion",        "AtomFormatString">>,
    <<"ProductSerial",         "AtomFormatString">>,
    <<"ProductPartNumber",     "AtomFormatString">>,
    <<"AuxiliaryURL",          "AtomFormatURL">>,
    <<"PCBRepository",         "AtomFormatRelativeURL">>,
    <<"PCBRevision",           "AtomFormatString">>,
    <<"PCBLicense",            "AtomFormatLicense">>,
    <<"PCBProductionBatchID",  "AtomFormatTimestamp">>,
    <<"PCBPopulationBatchID",  "AtomFormatTimestamp">>,
    <<"FirmwareDescription",   "AtomFormatString">>,
    <<"FirmwareRepository",    "AtomFormatRelativeURL">>,
    <<"FirmwareRevision",      "AtomFormatString">>,
    <<"FirmwareLicense",       "AtomFormatLicense">>,
    <<"FirmwareProgramDate",   "AtomFormatTimestamp">>,
    <<"EEPROMTotalSize",       "AtomFormatSizeOffset">>,
    <<"EEPROMVendorData",      "AtomFormatSizeOffset">>,
    <<"EEPROMTOFEData",        "AtomFormatSizeOffset">>,
    <<"EEPROMUserData",        "AtomFormatSizeOffset">>,
    <<"EEPROMGUID",            "AtomFormatSizeOffset">>,
    <<"EEPROMHole",            "AtomFormatSizeOffset">>,
    <<"EEPROMPartNumber",      "AtomFormatString">>,
    <<"SampleCodeRepository",  "AtomFormatRelativeURL">>,
    <<"DocumentationSite",     "AtomFormatRelativeURL">> >>

FORMAT ==
    [f \in {"AtomFormatString", "AtomFormatURL", "AtomFormatRelativeURL",
            "AtomFormatTimestamp", "AtomFormatLicense", "AtomFormatSizeOffset"} |->
        CASE f = "AtomFormatString"      -> 0
          [] f = "AtomFormatURL"         -> 16
          [] f = "AtomFormatRelativeURL" -> 32
          [] f = "AtomFormatTimestamp"   -> 48
          [] f = "AtomFormatLicense"     -> 64
          [] f = "AtomFormatSizeOffset"  -> 80]

\* atom_i counting the classes of the family from 0
atom_i_from_zero(i) == Cardinality({j \in 1..(i - 1) : ATOMS[j][2] = ATOMS[i][2]})

\* len(atom_format_cls.TYPES)+1 when the loop reaches entry i
atom_i(i) == Cardinality({j \in 1..(i - 1) : ATOMS[j][2] = ATOMS[i][2]}) + 1

atom_type(i) == Or8(FORMAT[ATOMS[i][2]], atom_i(i))

AtomNames == {ATOMS[i][1] : i \in 1..Len(ATOMS)}

\* the format classes, which can be instantiated themselves
FormatNames == DOMAIN FORMAT \cup {"AtomFormatExpandInt"}

\* the class the loop creates for each name: its format class, ORDER and
\* TYPE; a format class keeps Atom.TYPE = 0xff and has no ORDER
AtomClass ==
    [c \in AtomNames \cup FormatNames |->
        IF c \in FormatNames THEN [format |-> c, TYPE |-> 255]
        ELSE LET i == CHOOSE j \in 1..Len(ATOMS) : ATOMS[j][1] = c
             IN  [format |-> ATOMS[i][2], ORDER |-> i - 1, TYPE |-> atom_type(i)]]

ATOMS_TYPES ==
    [t \in {AtomClass[c].TYPE : c \in AtomNames} |->
        CHOOSE c \in AtomNames : AtomClass[c].TYPE = t]

\* ctypes.sizeof of the class: the fields before _data
ClassSize(c) ==
    IF AtomClass[c].format \in {"AtomFormatRelativeURL", "AtomFormatLicense"} THEN 3 ELSE 2

\* DynamicLengthStructure._extra_size of an atom class: the fixed bytes
\* between _len and _data
extra_size(c) == ClassSize(c) - 2

isRelativeURL(c) == AtomClass[c].format = "AtomFormatRelativeURL"

----------------------------------------------------------------------------
(* Atom objects.  An atom is [ok, cls, buf]: buf is the object's memory    *)
(* (ctypes.sizeof(atom) = Len(buf)), ok is FALSE when the constructor      *)
(* raised and no atom exists.                                              *)

Raised(c) == [ok |-> FALSE, cls |-> c, buf |-> <<>>]

\* cls(type=cls.TYPE), then DynamicLengthStructure.__init__: _len = _extra_size
atom_new(c) ==
    [ok |-> TRUE, cls |-> c,
     buf |-> <<AtomClass[c].TYPE, extra_size(c)>> \o Fill(ClassSize(c) - 2, 0)]

\* the len property of an atom object
atom_len(a) == a.buf[2] - extra_size(a.cls)

\* the len setter on an atom object, which owns its memory: grow, then
\* store _extra_size + value in the one-byte _len field
atom_set_len(a, value) ==
    [a EXCEPT !.buf =
        Put(IF Len(a.buf) < ClassSize(a.cls) + value
            THEN a.buf \o Fill(ClassSize(a.cls) + value - Len(a.buf), 0)
            ELSE a.buf,
            1, <<(extra_size(a.cls) + value) % 256>>)]

\* self.data[:] = b : data is an array of self.len bytes, and a slice
\* assignment of another size raises
atom_set_data(a, b) ==
    IF atom_len(a) < 0 \/ atom_len(a) # Len(b) THEN Raised(a.cls)
    ELSE [a EXCEPT !.buf = Put(a.buf, ClassSize(a.cls), b)]

\* self.len = len(b); self.data[:] = b
set_bytes(a, b) == atom_set_data(atom_set_len(a, Len(b)), b)

\* the str setter
set_str(a, s) == set_bytes(a, encode_utf8(s))

AtomFormatString_create(c, s) == set_str(atom_new(c), s)

AtomFormatURL_create(c, url) == set_str(atom_new(c), StripScheme(url))

\* o.index = index
set_index(a, index) == [a EXCEPT !.buf = Put(a.buf, 2, <<index % 256>>)]

AtomFormatRelativeURL_create(c, index, url) ==
    IF url # <<>> /\ Head(url) = 47 THEN Raised(c)
    ELSE set_str(set_index(atom_new(c), index), url)

\* the data array of an atom object
atom_data(a) == Get(a.buf, ClassSize(a.cls), atom_len(a))

\* the bytes the v setter collects: v & 0xff, v >> 8 while v > 0
RECURSIVE expand_int(_)
expand_int(v) ==
    IF int_lt(int_of(0), v) THEN <<int_byte(v, 0)>> \o expand_int(int_shr8(v)) ELSE <<>>

\* expand_int that always collects one byte more: a zero on top
expand_int_padded(v) ==
    IF int_lt(int_of(0), v) THEN expand_int(v) \o <<0>> ELSE <<>>

\* the v getter: v |= b << i * 8 over the data
get_v(a) == int_from(atom_data(a), 0, int_of(0))

set_v(a, v) == set_bytes(a, expand_int(v))

AtomFormatExpandInt_create(c, v) == set_v(atom_new(c), v)

EPOCH == 1420070400

AtomFormatTimestamp_create(c, ts) ==
    IF ts - EPOCH > 0 THEN set_v(atom_new(c), int_of(ts - EPOCH)) ELSE Raised(c)

_l(license, version) == Or8((license * 8) % 256, version)

Names ==
    [n \in {"Invalid", "MIT", "BSD_simple", "BSD_new", "BSD_isc", "Apache_v2",
            "GPL_v2", "GPL_v3", "LGPL_v21", "LGPL_v3", "CC0_v1",
            "CC_BY_v10", "CC_BY_v20", "CC_BY_v25", "CC_BY_v30", "CC_BY_v40",
            "CC_BY_SA_v10", "CC_BY_SA_v20", "CC_BY_SA_v25", "CC_BY_SA_v30",
            "CC_BY_SA_v40", "TAPR_v10", "CERN_v11", "CERN_v12", "Proprietary"} |->
        CASE n = "Invalid"      -> 0
          [] n = "MIT"          -> _l(1, 1)
          [] n = "BSD_simple"   -> _l(2, 1)
          [] n = "BSD_new"      -> _l(2, 2)
          [] n = "BSD_isc"      -> _l(2, 3)
          [] n = "Apache_v2"    -> _l(3, 1)
          [] n = "GPL_v2"       -> _l(4, 1)
          [] n = "GPL_v3"       -> _l(4, 2)
          [] n = "LGPL_v21"     -> _l(5, 1)
          [] n = "LGPL_v3"      -> _l(5, 2)
          [] n = "CC0_v1"       -> _l(6, 1)
          [] n = "CC_BY_v10"    -> _l(7, 1)
          [] n = "CC_BY_v20"    -> _l(7, 2)
          [] n = "CC_BY_v25"    -> _l(7, 3)
          [] n = "CC_BY_v30"    -> _l(7, 4)
          [] n = "CC_BY_v40"    -> _l(7, 5)
          [] n = "CC_BY_SA_v10" -> _l(8, 1)
          [] n = "CC_BY_SA_v20" -> _l(8, 2)
          [] n = "CC_BY_SA_v25" -> _l(8, 3)
          [] n = "CC_BY_SA_v30" -> _l(8, 4)
          [] n = "CC_BY_SA_v40" -> _l(8, 5)
          [] n = "TAPR_v10"     -> _l(9, 1)
          [] n = "CERN_v11"     -> _l(10, 1)
          [] n = "CERN_v12"     -> _l(10, 2)
          [] n = "Proprietary"  -> 255]

\* the value setter: self._value = license.value
set_value(a, value) == [a EXCEPT !.buf = Put(a.buf, 2, <<value>>)]

\* the value getter: self.Names(self._value), which raises for a byte that
\* no member has
get_value(a) ==
    IF \E n \in DOMAIN Names : Names[n] = a.buf[3]
    THEN [ok |-> TRUE, name |-> CHOOSE n \in DOMAIN Names : Names[n] = a.buf[3]]
    ELSE [ok |-> FALSE, name |-> ""]

\* _NamesStruct over the value byte: license is the first bit field of a
\* little-endian structure, the low five bits, and version the three above
_parts(a) == [license |-> a.buf[3] % 32, version |-> a.buf[3] \div 32]

\* value is the name of a member of Names; anything else fails the isinstance assert
AtomFormatLicense_create(c, value) ==
    IF value \notin DOMAIN Names THEN Raised(c) ELSE set_value(atom_new(c), Names[value])

\* create_struct that picks Large for whatever is not Small
create_struct_wide(offset, size) ==
    IF int_lt(offset, int_of(256)) /\ int_lt(size, int_of(256)) THEN 1
    ELSE IF int_lt(offset, <<0, 0, 1>>) /\ int_lt(size, <<0, 0, 1>>) THEN 4
    ELSE 0

\* the struct create picks, as the width in bytes of its members: Small 1,
\* Medium 2, Large 4; 0 where create reaches assert False
create_struct(offset, size) ==
    IF int_lt(offset, int_of(256)) /\ int_lt(size, int_of(256)) THEN 1
    ELSE IF int_lt(offset, int_of(65536)) /\ int_lt(size, int_of(65536)) THEN 2
    ELSE IF int_lt(offset, <<0, 0, 1>>) /\ int_lt(size, <<0, 0, 1>>) THEN 4
    ELSE 0

\* o.len = ctypes.sizeof(struct); o.offset = offset; o.size = size, for the
\* struct whose members are w bytes wide
set_offset_size(a, w, offset, size) ==
    [a EXCEPT !.buf = Put(Put(atom_set_len(a, 2 * w).buf, 2, int_field(offset, w)),
                          2 + w, int_field(size, w))]

\* create once the struct is picked
create_with(c, w, offset, size) ==
    IF w = 0 THEN Raised(c) ELSE set_offset_size(atom_new(c), w, offset, size)

AtomFormatSizeOffset_create(c, offset, size) ==
    create_with(c, create_struct(offset, size), offset, size)

\* _data_struct: the width of the members of the struct that self.len
\* selects; 0 where it reaches assert False
_data_struct(a) ==
    IF atom_len(a) = 2 THEN 1
    ELSE IF atom_len(a) = 4 THEN 2
    ELSE IF atom_len(a) = 8 THEN 4
    ELSE 0

\* the offset and size getters: [ok, v]
get_offset(a) ==
    IF _data_struct(a) = 0 THEN [ok |-> FALSE, v |-> <<>>]
    ELSE [ok |-> TRUE, v |-> int_from(Get(a.buf, 2, _data_struct(a)), 0, int_of(0))]

get_size(a) ==
    IF _data_struct(a) = 0 THEN [ok |-> FALSE, v |-> <<>>]
    ELSE [ok |-> TRUE,
          v |-> int_from(Get(a.buf, 2 + _data_struct(a), _data_struct(a)), 0, int_of(0))]

----------------------------------------------------------------------------
(* The atom container: AtomCommon and its subclasses.                      *)

TOFE_MAGIC == <<84, 79, 70, 69, 0>>

MAGIC(k) ==
    CASE k = "AtomCommon" -> <<0, 1, 2, 3, 4>>
      [] k = "TOFEAtoms"  -> TOFE_MAGIC
      [] k = "OpsisAtoms" -> <<79, 80, 83, 73, 83>>

\* AtomCommon's literal is b'\0x4\0x3\0x2\x01\x00': NUL 'x' '4', NUL 'x' '3',
\* NUL 'x' '2', 0x01, 0x00.  TOFEAtoms takes MAGIC[::-1], OpsisAtoms b'SISPO'.
RAGIC(k) ==
    CASE k = "AtomCommon" -> <<0, 120, 52, 0, 120, 51, 0, 120, 50, 1, 0>>
      [] k = "TOFEAtoms"  -> Reverse(TOFE_MAGIC)
      [] k = "OpsisAtoms" -> <<83, 73, 83, 80, 79>>

\* offsets of AtomCommon's fields (_pack_ = 1)
OffMagic == 0

OffVersion == 5

OffAtoms == 6

OffCrc8 == 7

OffLen == 8

OffData == 12

\* OpsisAtoms adds _datax, 106 bytes; OpsisEEPROM has _atoms_data of the same size
AtomsDataSize == 106

\* a container made by its constructor owns its buffer; eeprom_atoms is
\* OpsisAtoms.from_address(...) and does not
Owns(k) == k # "OpsisAtoms"

\* where the container starts in mem: OpsisEEPROM.magic.offset for the view
Base(k) == IF Owns(k) THEN 0 ELSE 9

sizeof(k, m) == IF Owns(k) THEN Len(m) ELSE OffData + AtomsDataSize

Wild == 0 - 1

\* one byte read through a from_address pointer: nothing checks the bounds
Rd(m, o) == IF o >= 0 /\ o < Len(m) THEN m[o + 1] ELSE Wild

f_atoms(k, m) == m[Base(k) + OffAtoms + 1]

f_crc8(k, m) == m[Base(k) + OffCrc8 + 1]

f_len(k, m) == FromLE(Get(m, Base(k) + OffLen, 4))

\* the len property: _len - _extra_size, and AtomCommon has no extra bytes
len(k, m) == f_len(k, m) - 0

data(k, m) == Get(m, Base(k) + OffData, len(k, m))

ragic(k, m) == PySliceFrom(data(k, m), len(k, m) - Len(RAGIC(k)))

as_bytearray(k, m) == Get(m, Base(k), sizeof(k, m))

\* crc_excluding that stops at the crc byte: the bytes after it are not read
crc_before_only(raw_bytes, off) == Crc8(SubSeq(raw_bytes, 1, off), <<>>)

\* the CRC of raw_bytes[0:off] followed by raw_bytes[off+1:]
crc_excluding(raw_bytes, off) ==
    Crc8(SubSeq(raw_bytes, 1, off), SubSeq(raw_bytes, off + 2, Len(raw_bytes)))

crc_calculate(k, m) == crc_excluding(as_bytearray(k, m), OffCrc8)

crc_check(k, m) == f_crc8(k, m) = crc_calculate(k, m)

crc_update(k, m) == Put(m, Base(k) + OffCrc8, <<crc_calculate(k, m)>>)

\* the len setter with a resize that does nothing, and does not raise, on
\* memory the object does not own
set_len_unchecked(k, m, value) ==
    [ok |-> TRUE,
     mem |-> Put(IF sizeof(k, m) < OffData + value /\ Owns(k)
                 THEN m \o Fill(OffData + value - sizeof(k, m), 0) ELSE m,
                 Base(k) + OffLen, LE(value, 4))]

\* the len setter: ctypes.resize when the object is too small, which raises
\* for memory the object does not own, and only then the store to _len
set_len(k, m, value) ==
    IF sizeof(k, m) < OffData + value /\ ~Owns(k) THEN [ok |-> FALSE, mem |-> m]
    ELSE [ok |-> TRUE,
          mem |-> Put(IF sizeof(k, m) < OffData + value
                      THEN m \o Fill(OffData + value - sizeof(k, m), 0) ELSE m,
                      Base(k) + OffLen, LE(value, 4))]

\* the bytes up to the first NUL
RECURSIVE c_char_value(_)
c_char_value(b) ==
    IF b = <<>> \/ Head(b) = 0 THEN <<>> ELSE <<Head(b)>> \o c_char_value(Tail(b))

\* a store to a c_char array field of n bytes: the bytes up to the first NUL
\* of the value, and the NUL when there is room for it
c_char_store(v, n) == IF Len(v) < n THEN v \o <<0>> ELSE v

\* self.magic = self.MAGIC; self.version = 0x1; self.atoms = 0
populate_header(k, m) ==
    Put(Put(Put(m, Base(k) + OffMagic, c_char_store(c_char_value(MAGIC(k)), 5)),
            Base(k) + OffVersion, <<1>>),
        Base(k) + OffAtoms, <<0>>)

\* populate_data without the store of RAGIC to the data
populate_data_no_trailer(k, r) ==
    IF ~r.ok THEN r ELSE [ok |-> TRUE, mem |-> crc_update(k, r.mem)]

\* self.data[:] = self.RAGIC[:]; self.crc_update(), once the len setter returned r
populate_data(k, r) ==
    IF ~r.ok THEN r
    ELSE [ok |-> TRUE, mem |-> crc_update(k, Put(r.mem, Base(k) + OffData, RAGIC(k)))]

\* AtomCommon.populate
populate(k, m) == populate_data(k, set_len(k, populate_header(k, m), Len(RAGIC(k))))

\* one step of the loop of get_atom from offset p, l being the _len byte of
\* the atom at p: sizeof(Atom) and l more (Wild: the walk left the memory)
walk_step(p, l) == IF l = Wild THEN Wild ELSE p + 2 + l

\* current_offset after n more steps of the loop from offset p: the first half
\* of the steps, then the rest
RECURSIVE walk_from(_, _, _, _)
walk_from(k, m, p, n) ==
    IF p = Wild \/ n = 0 THEN p
    ELSE IF n = 1 THEN walk_step(p, Rd(m, Base(k) + OffData + p + 1))
    ELSE walk_from(k, m, walk_from(k, m, p, n \div 2), n - (n \div 2))

\* current_offset when the loop reaches atom i
walk(k, m, i) == walk_from(k, m, 0, i)

NoView == [ok |-> FALSE, cls |-> "", off |-> 0, parent |-> Wild]

View(c, off, parent) == [ok |-> TRUE, cls |-> c, off |-> off, parent |-> parent]

\* get_atom(v): the view of atom v, [ok, cls, off, parent]: off is the atom's
\* offset in the data, parent the index a relative URL refers to.  fuel bounds
\* the recursion through parents: a cycle ends in RecursionError.
RECURSIVE get_atom_rec(_, _, _, _)

\* a relative URL of class c at off: a.index != i, then get_atom(a.index)
get_atom_relative(k, m, v, off, c, index, fuel) ==
    IF index = Wild \/ index = v THEN NoView
    ELSE IF ~get_atom_rec(k, m, index, fuel - 1).ok THEN NoView
    ELSE View(c, off, index)

\* the atom at off has type byte t: a.type in ATOMS_TYPES, and its class
get_atom_typed(k, m, v, off, t, fuel) ==
    IF t \notin DOMAIN ATOMS_TYPES THEN NoView
    ELSE IF ~isRelativeURL(ATOMS_TYPES[t]) THEN View(ATOMS_TYPES[t], off, Wild)
    ELSE get_atom_relative(k, m, v, off, ATOMS_TYPES[t],
                           Rd(m, Base(k) + OffData + off + 2), fuel)

\* the loop has stopped at off
get_atom_at(k, m, v, off, fuel) ==
    IF off = Wild THEN NoView
    ELSE get_atom_typed(k, m, v, off, Rd(m, Base(k) + OffData + off), fuel)

get_atom_rec(k, m, v, fuel) ==
    IF ~(v < f_atoms(k, m)) \/ fuel = 0 THEN NoView
    ELSE get_atom_at(k, m, v, walk(k, m, v), fuel)

get_atom(k, m, v) == get_atom_rec(k, m, v, 256)

\* order_assert with > where the code has >=
order_assert_strict(lastv, atom) ==
    IF ~lastv.ok THEN "get_atom"
    ELSE IF ~(AtomClass[atom.cls].ORDER > AtomClass[lastv.cls].ORDER) THEN "order"
    ELSE ""

\* order_assert comparing the type bytes where the code compares ORDER
order_assert_by_type(lastv, atom) ==
    IF ~lastv.ok THEN "get_atom"
    ELSE IF ~(AtomClass[atom.cls].TYPE >= AtomClass[lastv.cls].TYPE) THEN "order"
    ELSE ""

\* assert atom.ORDER >= self.get_atom(self.atoms-1).ORDER, given that view
order_assert(lastv, atom) ==
    IF ~lastv.ok THEN "get_atom"
    ELSE IF ~(AtomClass[atom.cls].ORDER >= AtomClass[lastv.cls].ORDER) THEN "order"
    ELSE ""

\* add_atom_asserts without the assert on a relative URL's index
add_atom_asserts_no_index(k, m, atom) ==
    IF ragic(k, m) # RAGIC(k) THEN "ragic"
    ELSE IF f_atoms(k, m) > 0 /\ order_assert(get_atom(k, m, f_atoms(k, m) - 1), atom) # ""
         THEN order_assert(get_atom(k, m, f_atoms(k, m) - 1), atom)
    ELSE ""

\* the asserts that open add_atom: the one that fails, or ""
add_atom_asserts(k, m, atom) ==
    IF ragic(k, m) # RAGIC(k) THEN "ragic"
    ELSE IF f_atoms(k, m) > 0 /\ order_assert(get_atom(k, m, f_atoms(k, m) - 1), atom) # ""
         THEN order_assert(get_atom(k, m, f_atoms(k, m) - 1), atom)
    ELSE IF isRelativeURL(atom.cls) /\ ~(atom.buf[3] < f_atoms(k, m)) THEN "index"
    ELSE ""

\* self.atoms += 1, in a one-byte field
add_atom_count(k, m) == Put(m, Base(k) + OffAtoms, <<(f_atoms(k, m) + 1) % 256>>)

\* self.data[self.len - len(self.RAGIC):] = self.RAGIC[:]
add_atom_ragic(k, m) == Put(m, Base(k) + OffData + len(k, m) - Len(RAGIC(k)), RAGIC(k))

\* add_atom_store without its closing crc_update
add_atom_store_stale_crc(k, m1, r, atom, atom_offset) ==
    IF ~r.ok THEN [ok |-> FALSE, err |-> "resize", mem |-> m1]
    ELSE [ok |-> TRUE, err |-> "",
          mem |-> add_atom_ragic(k, Put(r.mem, Base(k) + OffData + atom_offset, atom.buf))]

\* after the len setter returned r on the memory m1: the memmove to
\* atom_offset, the trailer and crc_update, or the setter's exception
add_atom_store(k, m1, r, atom, atom_offset) ==
    IF ~r.ok THEN [ok |-> FALSE, err |-> "resize", mem |-> m1]
    ELSE [ok |-> TRUE, err |-> "",
          mem |-> crc_update(k, add_atom_ragic(k,
                      Put(r.mem, Base(k) + OffData + atom_offset, atom.buf)))]

\* self.len += atom_size, on the memory m1 that has the new count
add_atom_grow(k, m1, atom, atom_offset) ==
    add_atom_store(k, m1, set_len(k, m1, len(k, m1) + Len(atom.buf)), atom, atom_offset)

\* add_atom once its asserts gave err
add_atom_body(k, m, atom, err) ==
    IF err # "" THEN [ok |-> FALSE, err |-> err, mem |-> m]
    ELSE add_atom_grow(k, add_atom_count(k, m), atom, len(k, m) - Len(RAGIC(k)))

\* add_atom: [ok, err, mem].  err names the statement that raised.
add_atom(k, m, atom) == add_atom_body(k, m, atom, add_atom_asserts(k, m, atom))

----------------------------------------------------------------------------
(* opsis_eeprom.py: the 256-byte OpsisEEPROM image and its embedded        *)
(* OpsisAtoms container.                                                   *)

EEPROM_SIZE == 256

\* offsets of OpsisEEPROM's fields (_pack_ = 1)
OffFx2 == 0

OffSep == 8

OffCrc8Full == 127

OffWpEmpty == 128

WpEmptySize == 120

OffWpMac == 248

WpMacSize == 8

\* FX2C0Config.populate: format, vid and pid; did and config are left alone
fx2_populate(m) == Put(m, OffFx2, <<192>> \o LE(10777, 2) \o LE(21568, 2))

\* FX2C0Config.check
fx2_check(m) ==
    /\ m[OffFx2 + 1] = 192
    /\ FromLE(Get(m, OffFx2 + 1, 2)) = 10777
    /\ FromLE(Get(m, OffFx2 + 3, 2)) = 21568

return_fill_buffer(n, value) == Fill(n, value)

\* the atoms OpsisAtoms.populate adds; t1 and t2 are the two time.time() readings
OpsisPopulateAtoms(t1, t2) == <<
    AtomFormatURL_create("ManufacturerID", <<110, 117, 109, 97, 116, 111, 46, 99, 111, 109>>),
    AtomFormatURL_create("ProductID", <<111, 112, 115, 105, 115, 46, 104, 50, 117, 46, 116, 118>>),
    AtomFormatRelativeURL_create("PCBRepository", 1, <<114, 47, 112, 99, 98, 46, 103, 105, 116>>),
    AtomFormatString_create("PCBRevision", <<54, 97, 49, 56, 98, 49, 57>>),
    AtomFormatLicense_create("PCBLicense", "CC_BY_SA_v40"),
    AtomFormatTimestamp_create("PCBProductionBatchID", t1),
    AtomFormatTimestamp_create("PCBPopulationBatchID", t2),
    AtomFormatSizeOffset_create("EEPROMTotalSize", int_of(0), int_of(256)),
    AtomFormatSizeOffset_create("EEPROMVendorData", int_of(0), int_of(8)),
    AtomFormatSizeOffset_create("EEPROMGUID", int_of(248), int_of(8)),
    AtomFormatSizeOffset_create("EEPROMHole", int_of(128), int_of(120)),
    AtomFormatRelativeURL_create("SampleCodeRepository", 1,
        <<114, 47, 115, 97, 109, 112, 108, 101, 46, 103, 105, 116>>),
    AtomFormatRelativeURL_create("DocumentationSite", 1, <<>>) >>

\* the add_atom calls of OpsisAtoms.populate, one after the other; a call
\* that raises ends populate there.  [ok, mem, n]: n atoms were accepted.
RECURSIVE add_all(_, _, _, _)

\* add_atom returned r for atom n + 1
add_all_next(k, r, as, n) ==
    IF r.ok THEN add_all(k, r.mem, as, n + 1) ELSE [ok |-> FALSE, mem |-> r.mem, n |-> n]

add_all(k, m, as, n) ==
    IF n = Len(as) THEN [ok |-> TRUE, mem |-> m, n |-> n]
    ELSE IF ~as[n + 1].ok THEN [ok |-> FALSE, mem |-> m, n |-> n]
    ELSE add_all_next(k, add_atom(k, m, as[n + 1]), as, n)

\* the add_atom calls, once AtomCommon.populate returned r
OpsisAtoms_add(r, as) ==
    IF ~r.ok THEN [ok |-> FALSE, mem |-> r.mem, n |-> 0]
    ELSE add_all("OpsisAtoms", r.mem, as, 0)

\* OpsisAtoms.populate
OpsisAtoms_populate(m, t1, t2) ==
    OpsisAtoms_add(populate("OpsisAtoms", m), OpsisPopulateAtoms(t1, t2))

full_bytes(m) == SubSeq(m, 1, OffCrc8Full) \o SubSeq(m, OffCrc8Full + 2, EEPROM_SIZE)

calculate_crc_full(m) == Crc8(full_bytes(m), <<>>)

\* set_crc8_full with the CRC taken over all 256 bytes, crc8_full among them
set_crc8_full_whole(m) == Put(m, OffCrc8Full, <<Crc8(m, <<>>)>>)

\* self.crc8_full = self.calculate_crc_full()
set_crc8_full(m) == Put(m, OffCrc8Full, <<calculate_crc_full(m)>>)

\* populate_mac without its test of wp_mac[0]
populate_mac_always(m) == Put(m, OffWpMac, <<255, 255>>)

\* if self.wp_mac[0] == 0: wp_mac[0] = wp_mac[1] = -1
populate_mac(m) == IF m[OffWpMac + 1] = 0 THEN Put(m, OffWpMac, <<255, 255>>) ELSE m

\* the stores of OpsisEEPROM.populate before eeprom_atoms.populate()
populate_image(m) ==
    populate_mac(
        Put(Put(Put(fx2_populate(m), OffSep, <<0>>),
                Base("OpsisAtoms") + OffData, return_fill_buffer(AtomsDataSize, 0)),
            OffWpEmpty, return_fill_buffer(WpEmptySize, 255)))

\* populate_crc without the store to crc8_full
populate_crc_skipped(r) == r

\* the store to crc8_full, which an exception from eeprom_atoms.populate() skips
populate_crc(r) == IF ~r.ok THEN r ELSE [r EXCEPT !.mem = set_crc8_full(r.mem)]

\* OpsisEEPROM.populate: [ok, mem, n]
OpsisEEPROM_populate(m, t1, t2) ==
    populate_crc(OpsisAtoms_populate(populate_image(m), t1, t2))

\* OpsisEEPROM.check: TRUE when no assert fails.  The result of
\* eeprom_atoms.crc_check() is computed and dropped.
check(m) ==
    /\ fx2_check(m)
    /\ m[OffSep + 1] = 0
    /\ c_char_value(Get(m, Base("OpsisAtoms") + OffMagic, 5)) = MAGIC("OpsisAtoms")
    /\ m[Base("OpsisAtoms") + OffVersion + 1] = 1
    /\ crc_check("OpsisAtoms", m) \in BOOLEAN
    /\ ragic("OpsisAtoms", m) = RAGIC("OpsisAtoms")
    /\ Get(m, OffWpEmpty, WpEmptySize) = return_fill_buffer(WpEmptySize, 255)
    /\ m[OffCrc8Full + 1] = calculate_crc_full(m)

eeprom_atoms_leftover(m) == AtomsDataSize - f_len("OpsisAtoms", m)

----------------------------------------------------------------------------
(* Inputs and bounds *)

\* direct add_atom calls accepted per container
MaxAtoms == 3

\* parent indexes tried for relative URLs
MaxIndex == 2

\* add_atom calls in the specification that fills the one-byte atoms field
MaxWrap == 257

\* time.time() readings: 2015-01-12 (a three-byte delta) and 2015-12-22 (four bytes)
Times == {1421070400, 1450787283}

MacIndexes == {0, 1}

MacValues == {0, 18}

\* the atoms handed to add_atom, each built by its create constructor
AtomInputs ==
    {a \in
        {AtomFormatURL_create("ManufacturerID", <<104, 116, 116, 112, 58, 47, 47, 110, 46, 99, 111>>),
         AtomFormatString_create("ProductVersion", <<9731>>),
         AtomFormatLicense_create("PCBLicense", "GPL_v2"),
         AtomFormatTimestamp_create("PCBProductionBatchID", 1421070400),
         AtomFormatString_create("EEPROMPartNumber", <<>>),
         AtomFormatRelativeURL_create("DocumentationSite", 1, <<>>),
         AtomFormatRelativeURL_create("DocumentationSite", 1, <<59>>)}
        \cup {AtomFormatRelativeURL_create("PCBRepository", i, <<114>>) : i \in 0..MaxIndex}
     : a.ok}

WrapInputs == {AtomFormatString_create("ProductVersion", <<>>)}

----------------------------------------------------------------------------
(* The state machine *)

NoAtom == [ok |-> FALSE, cls |-> "", buf |-> <<>>]

Outcome(op, ok, err, atom) == [op |-> op, ok |-> ok, err |-> err, atom |-> atom]

\* AtomCommon.__init__: the zeroed structure, then populate
New(k) == populate(k, Fill(OffData, 0)).mem

\* TOFEAtoms() or AtomCommon(), or OpsisEEPROM(): 256 zero bytes
Init ==
    /\ kind \in {"AtomCommon", "TOFEAtoms", "OpsisAtoms"}
    /\ mem = IF Owns(kind) THEN New(kind) ELSE Fill(EEPROM_SIZE, 0)
    /\ added = <<>>
    /\ last = Outcome("new", TRUE, "", NoAtom)
    /\ prev = mem

\* container.add_atom(a), or e.eeprom_atoms.add_atom(a)
AddAtom(a) ==
    /\ \E r \in {add_atom(kind, mem, a)} :
           /\ mem' = r.mem
           /\ added' = IF r.ok THEN Append(added, a) ELSE added
           /\ last' = Outcome("add_atom", r.ok, r.err, a)
    /\ prev' = mem
    /\ UNCHANGED kind

\* the image has been through populate: its version byte is set
Populated(m) == m[Base("OpsisAtoms") + OffVersion + 1] = 1

\* e.populate(), on an image that is still as OpsisEEPROM() made it, or on a
\* populated one that an add_atom has just failed to grow and that has had no
\* atom added to it
Populate(t1, t2) ==
    /\ kind = "OpsisAtoms"
    /\ ~Populated(mem) \/ (last.err = "resize" /\ Len(added) = 13)
    /\ \E r \in {OpsisEEPROM_populate(mem, t1, t2)} :
           /\ mem' = r.mem
           /\ added' = SubSeq(OpsisPopulateAtoms(t1, t2), 1, r.n)
           /\ last' = Outcome("populate", r.ok, "", NoAtom)
    /\ prev' = mem
    /\ UNCHANGED kind

\* e.wp_mac[i] = v: the MAC region as the chip vendor wrote it, before populate
SetMac(i, v) ==
    /\ kind = "OpsisAtoms"
    /\ ~Populated(mem)
    /\ mem' = Put(mem, OffWpMac + i, <<v>>)
    /\ last' = Outcome("wp_mac", TRUE, "", NoAtom)
    /\ prev' = mem
    /\ UNCHANGED <<kind, added>>

\* e.crc8_full = e.calculate_crc_full()
UpdateCrcFull ==
    /\ kind = "OpsisAtoms"
    /\ mem' = set_crc8_full(mem)
    /\ last' = Outcome("crc8_full", TRUE, "", NoAtom)
    /\ prev' = mem
    /\ UNCHANGED <<kind, added>>

\* e.check()
Check ==
    /\ kind = "OpsisAtoms"
    /\ last' = Outcome("check", check(mem), "", NoAtom)
    /\ prev' = mem
    /\ UNCHANGED <<kind, mem, added>>

Limit == IF kind = "OpsisAtoms" THEN 13 + MaxAtoms ELSE MaxAtoms

Next ==
    \/ \E a \in AtomInputs : Len(added) < Limit /\ AddAtom(a)
    \/ \E t1 \in Times, t2 \in Times : t1 <= t2 /\ Populate(t1, t2)
    \/ \E i \in MacIndexes, v \in MacValues : SetMac(i, v)
    \/ UpdateCrcFull
    \/ Check

Spec == Init /\ [][Next]_vars

\* a TOFEAtoms container that is only appended to, until the atoms byte wraps
InitWrap ==
    /\ kind = "TOFEAtoms"
    /\ mem = New(kind)
    /\ added = <<>>
    /\ last = Outcome("new", TRUE, "", NoAtom)
    /\ prev = mem

NextWrap == \E a \in WrapInputs : Len(added) < MaxWrap /\ AddAtom(a)

SpecWrap == InitWrap /\ [][NextWrap]_vars

\* the values a c_uint8 holds
Bytes == 0..255

\* the bits a store changes in a byte of a larger memory: each single bit, and
\* all eight
Masks == {1, 2, 4, 8, 16, 32, 64, 128, 255}

\* the values stored over the byte b: every other value in a container that
\* holds no atom, the byte with the bits of one mask changed in a larger one
StoreValues(k, as, b) ==
    IF Owns(k) /\ as = <<>> THEN Bytes \ {b} ELSE {Xor8(b, d) : d \in Masks}

\* a store of v to the one byte at offset o of the structure, as t2.b1 = 1 and
\* t2.data[0] = 1 in the doctest: nothing else is written, no CRC is updated
StoreByte(o, v) ==
    /\ last.op # "store"
    /\ last.ok
    /\ Owns(kind) \/ Populated(mem)
    /\ o < Len(mem)
    /\ v \in StoreValues(kind, added, mem[o + 1])
    /\ mem' = Put(mem, o, <<v>>)
    /\ last' = Outcome("store", TRUE, "", NoAtom)
    /\ prev' = mem
    /\ UNCHANGED <<kind, added>>

\* the one time.time() reading of the specification that stores single bytes
StoreTime == 1450787283

\* a container or an image is built, and then one byte of it is overwritten
NextStore ==
    \/ \E a \in AtomInputs : Len(added) < 1 /\ Owns(kind) /\ last.op # "store" /\ AddAtom(a)
    \/ Populate(StoreTime, StoreTime)
    \/ /\ last.op # "store"
       /\ \E o \in 0..(Len(mem) - 1) :
              \E v \in StoreValues(kind, added, mem[o + 1]) : StoreByte(o, v)

SpecStore == Init /\ [][NextStore]_vars

\* an atom object is created by its format class, outside any container, and
\* a behaviour follows that one object: mem is its memory, which has no
\* earlier contents, added the arguments of the call, last.atom the object
Created(op, args, r) ==
    /\ mem' = r.buf
    /\ added' = args
    /\ last' = Outcome(op, r.ok, "", r)
    /\ prev' = <<>>
    /\ UNCHANGED kind

\* AtomFormatExpandInt.create(v)
CreateExpandInt(v) ==
    /\ last.op = "new"
    /\ Created("AtomFormatExpandInt.create", <<v>>,
               AtomFormatExpandInt_create("AtomFormatExpandInt", v))

\* AtomFormatSizeOffset.create(offset, size)
CreateSizeOffset(offset, size) ==
    /\ last.op = "new"
    /\ Created("AtomFormatSizeOffset.create", <<offset, size>>,
               AtomFormatSizeOffset_create("AtomFormatSizeOffset", offset, size))

\* AtomFormatLicense.create(AtomFormatLicense.Names[value])
CreateLicense(value) ==
    /\ last.op = "new"
    /\ Created("AtomFormatLicense.create", <<value>>,
               AtomFormatLicense_create("AtomFormatLicense", value))

\* a.len = n on the size/offset atom that create returned
SetLen(n) ==
    /\ last.op = "AtomFormatSizeOffset.create"
    /\ last.atom.ok
    /\ \E r \in {atom_set_len(last.atom, n)} :
           /\ mem' = r.buf
           /\ last' = Outcome("len", TRUE, "", r)
    /\ prev' = mem
    /\ UNCHANGED <<kind, added>>

\* the base-65536 digits of the ints handed to AtomFormatExpandInt.create
MaxDigits == 5

DigitValues == {0, 1, 255, 256, 65535}

\* the ints of at most n digits, each digit one of DigitValues
Ints(n) == {int_norm(d) : d \in UNION {[1..k -> DigitValues] : k \in 0..n}}

\* offsets and sizes: around 2**8, 2**16 and 2**32
SizeInputs ==
    {int_of(n) : n \in {0, 5, 10, 255, 256, 700, 65535, 65536}}
        \cup {<<65535, 65535>>, <<0, 0, 1>>}

\* the lengths stored to an atom's len
MaxLen == 9

InitAtoms ==
    /\ kind = "Atom"
    /\ mem = <<>>
    /\ added = <<>>
    /\ last = Outcome("new", TRUE, "", NoAtom)
    /\ prev = <<>>

NextAtoms ==
    \/ \E v \in Ints(MaxDigits) : CreateExpandInt(v)
    \/ \E offset \in SizeInputs, size \in SizeInputs : CreateSizeOffset(offset, size)
    \/ \E value \in DOMAIN Names : CreateLicense(value)
    \/ \E n \in 0..MaxLen : SetLen(n)

SpecAtoms == InitAtoms /\ [][NextAtoms]_vars

----------------------------------------------------------------------------
(* What the claims read off a state *)

\* the view get_atom gives of atom i of the container in memory m
stored(m, i) == get_atom(kind, m, i)

\* the bytes of the data from offset off on, n of them
stored_bytes(m, off, n) == Get(m, Base(kind) + OffData + off, n)

\* the type byte of stored atom i
stored_type(m, i) == Rd(m, Base(kind) + OffData + stored(m, i).off)

\* the indexes below the atoms field
Indexes(m) == 0..(f_atoms(kind, m) - 1)

\* the view add_atom compares the new atom with: get_atom(atoms - 1) before the call
compared(m) == stored(m, f_atoms(kind, m) - 1)

\* the last step was an add_atom call
Called == last.op = "add_atom"

\* the last step was an add_atom call that returned
Accepted == Called /\ last.ok

\* the container has just been constructed: container classes that own their
\* memory are populated by __init__, the embedded one by OpsisEEPROM.populate
Constructed == (Owns(kind) /\ last.op = "new") \/ (last.op = "populate" /\ last.ok)

\* the sum of 2 + _len over the atoms s[lo..hi]
RECURSIVE SumSizes(_, _, _)
SumSizes(s, lo, hi) ==
    IF lo > hi THEN 0
    ELSE IF lo = hi THEN 2 + s[lo].buf[2]
    ELSE SumSizes(s, lo, (lo + hi) \div 2) + SumSizes(s, ((lo + hi) \div 2) + 1, hi)

----------------------------------------------------------------------------
(* C1 *)

\* C1: for a TOFEAtoms container, after construction and after every add_atom
\* that succeeded, crc_check() is true, and the crc8 byte is the CRC-8 of all
\* the container's bytes but the crc8 byte itself
C1_crc_valid ==
    (kind = "TOFEAtoms" /\ (Constructed \/ Accepted)) =>
        /\ crc_check(kind, mem)
        /\ Len(mem) = OffData + f_len(kind, mem)
        /\ mem[OffCrc8 + 1] = Crc8(SubSeq(mem, 1, OffCrc8), SubSeq(mem, OffCrc8 + 2, Len(mem)))

\* C1: a TOFEAtoms container to which a third atom has just been added
C1_witness ==
    kind = "TOFEAtoms" /\ Accepted /\ Len(added) = 3 /\ f_atoms(kind, mem) = 3

----------------------------------------------------------------------------
(* C2 *)

\* the ORDER values of the stored atoms never decrease
OrderSorted(m) ==
    \A i \in Indexes(m) : \A j \in Indexes(m) :
        i < j => /\ stored(m, i).ok
                 /\ stored(m, j).ok
                 /\ AtomClass[stored(m, i).cls].ORDER <= AtomClass[stored(m, j).cls].ORDER

\* the type bytes of the stored atoms never decrease
TypeSorted(m) ==
    \A i \in Indexes(m) : \A j \in Indexes(m) :
        i < j => /\ stored(m, i).ok
                 /\ stored(m, j).ok
                 /\ stored_type(m, i) <= stored_type(m, j)

\* add_atom got as far as comparing the new atom with the last stored one
Compared ==
    /\ Called
    /\ ragic(kind, prev) = RAGIC(kind)
    /\ f_atoms(kind, prev) > 0
    /\ compared(prev).ok

\* C2 as amended: add_atom fails its order assert exactly when the ORDER of
\* the new atom's class is less than the ORDER of the class of the atom that
\* get_atom(atoms - 1) returns, and in a container that owns its memory the
\* ORDER values of the stored atoms are non-decreasing
C2_order_checked ==
    /\ Compared =>
           (last.err = "order" <=>
                AtomClass[last.atom.cls].ORDER < AtomClass[compared(prev).cls].ORDER)
    /\ Owns(kind) => OrderSorted(mem)

\* C2: ProductVersion (type 0x01) is stored after ManufacturerID (type 0x12),
\* and a ManufacturerID offered next has just been rejected for its order
C2_witness ==
    /\ kind = "TOFEAtoms"
    /\ Len(added) = 2
    /\ added[1].cls = "ManufacturerID"
    /\ added[2].cls = "ProductVersion"
    /\ stored_type(mem, 0) > stored_type(mem, 1)
    /\ Called
    /\ last.err = "order"
    /\ last.atom.cls = "ManufacturerID"

\* C2 as stated: add_atom rejects an atom whose type byte is less than the
\* type byte of the last stored atom, and the stored type bytes are non-decreasing
C2_type_bytes_sorted ==
    /\ (Compared /\ last.atom.buf[1] < stored_type(prev, f_atoms(kind, prev) - 1)) => ~last.ok
    /\ TypeSorted(mem)

----------------------------------------------------------------------------
(* C3 *)

\* the atom at index p of memory m is an absolute URL
IsAbsoluteURL(m, p) ==
    /\ p \in Indexes(m)
    /\ stored(m, p).ok
    /\ AtomClass[stored(m, p).cls].format = "AtomFormatURL"

\* C3 as stated: every stored relative URL has a parent index below its own
\* index and an absolute URL at that index, and add_atom fails for a relative
\* URL whose parent index is not below the atoms count or is not an absolute URL
C3_parent_is_absolute_url ==
    /\ \A i \in Indexes(mem) :
           (stored(mem, i).ok /\ isRelativeURL(stored(mem, i).cls)) =>
               /\ stored(mem, i).parent < i
               /\ IsAbsoluteURL(mem, stored(mem, i).parent)
    /\ (Called /\ isRelativeURL(last.atom.cls) /\ ~IsAbsoluteURL(prev, last.atom.buf[3]))
           => ~last.ok

----------------------------------------------------------------------------
(* C4 *)

\* C4 as stated: an add_atom whose atom does not fit in the 106 bytes of the
\* embedded container fails and leaves every byte of the image as it was
C4_capacity_failure_changes_nothing ==
    (Called /\ kind = "OpsisAtoms"
            /\ f_len(kind, prev) + Len(last.atom.buf) > AtomsDataSize)
        => (~last.ok /\ mem = prev)

----------------------------------------------------------------------------
(* C5 *)

\* C5 as stated: after construction atoms is 0 and the declared length 5, and
\* after n successful add_atom calls atoms is n and the declared length is 5
\* plus the sum of 2 + _len over the atoms added
C5_count_and_length ==
    /\ Constructed => (f_atoms(kind, mem) = 0 /\ f_len(kind, mem) = 5)
    /\ (Constructed \/ Accepted) =>
           /\ f_atoms(kind, mem) = Len(added)
           /\ f_len(kind, mem) = 5 + SumSizes(added, 1, Len(added))

----------------------------------------------------------------------------
(* C6 *)

\* get_atom(i) gives the bytes and the class of the atom a
RoundTrip(m, i, a) ==
    /\ stored(m, i).ok
    /\ stored_bytes(m, stored(m, i).off, Len(a.buf)) = a.buf
    /\ a.buf[1] \in DOMAIN ATOMS_TYPES
    /\ stored(m, i).cls = ATOMS_TYPES[a.buf[1]]

\* C6 as stated: get_atom(i) returns the i-th atom added, bytes and class, for
\* every i below the number of atoms added, and fails from the atoms count on
C6_get_atom_round_trip ==
    (Constructed \/ Accepted) =>
        /\ \A i \in 0..(Len(added) - 1) : RoundTrip(mem, i, added[i + 1])
        /\ \A i \in f_atoms(kind, mem)..(f_atoms(kind, mem) + 1) : ~stored(mem, i).ok

----------------------------------------------------------------------------
(* C7 *)

\* C7 as stated: after construction and after every add_atom that succeeded,
\* the last |MAGIC| bytes of the declared payload are MAGIC reversed
C7_trailer_is_reversed_magic ==
    (Constructed \/ Accepted) =>
        stored_bytes(mem, f_len(kind, mem) - Len(MAGIC(kind)), Len(MAGIC(kind)))
            = Reverse(MAGIC(kind))

----------------------------------------------------------------------------
(* C8 *)

\* C8 as stated: an add_atom rejected for the atom's order or for a relative
\* URL's parent index leaves every byte unchanged, and crc_check() is true
\* after it
C8_rejection_keeps_valid_image ==
    (Called /\ last.err \in {"order", "index"}) =>
        (mem = prev /\ crc_check(kind, mem))

----------------------------------------------------------------------------
(* C9 *)

\* C9 as stated: check() fails when the crc8 byte of the embedded container
\* is not the CRC computed over the container
C9_check_validates_inner_crc ==
    (last.op = "check"
        /\ mem[Base("OpsisAtoms") + OffCrc8 + 1] # crc_calculate("OpsisAtoms", mem))
        => ~last.ok

----------------------------------------------------------------------------
(* C10 *)

\* the MAC region [0xF8, 0x100) from its byte lo on, n bytes
wp_mac(m, lo, n) == Get(m, OffWpMac + lo, n)

\* C10 as amended: OpsisEEPROM.populate leaves bytes 2..7 of the MAC region as
\* they were; bytes 0 and 1 stay as they were when byte 0 was not zero, and
\* both become 0xFF when byte 0 was zero
C10_mac_kept_unless_blank ==
    last.op = "populate" =>
        /\ wp_mac(mem, 2, 6) = wp_mac(prev, 2, 6)
        /\ prev[OffWpMac + 1] # 0 => wp_mac(mem, 0, 2) = wp_mac(prev, 0, 2)
        /\ prev[OffWpMac + 1] = 0 => wp_mac(mem, 0, 2) = <<255, 255>>

\* C10: populate has run on an image whose MAC region started with a
\* non-zero byte and has kept it
C10_witness ==
    /\ last.op = "populate"
    /\ last.ok
    /\ prev[OffWpMac + 1] = 18
    /\ mem[OffWpMac + 1] = 18
    /\ wp_mac(mem, 0, 8) = wp_mac(prev, 0, 8)

\* C10 as stated: populate leaves all 8 bytes of the MAC region as they were
C10_mac_untouched ==
    last.op = "populate" => wp_mac(mem, 0, 8) = wp_mac(prev, 0, 8)

----------------------------------------------------------------------------
(* C11 *)

\* C11: after OpsisEEPROM.populate() the byte at 0x7F is the CRC-8 of the
\* other 255 bytes of the image, every byte of [0x80, 0xF8) is 0xFF, and
\* check() passes
C11_populate_valid ==
    (last.op = "populate" /\ last.ok) =>
        /\ Len(mem) = EEPROM_SIZE
        /\ mem[OffCrc8Full + 1] =
               Crc8(SubSeq(mem, 1, OffCrc8Full) \o SubSeq(mem, OffCrc8Full + 2, Len(mem)), <<>>)
        /\ \A o \in OffWpEmpty..(OffWpMac - 1) : mem[o + 1] = 255
        /\ check(mem)

\* C11: populate has rebuilt an image that a failed add_atom had left with
\* 14 in its atoms byte
C11_witness ==
    /\ last.op = "populate"
    /\ last.ok
    /\ Populated(prev)
    /\ f_atoms(kind, prev) = 14
    /\ f_atoms(kind, mem) = 13
    /\ check(mem)

----------------------------------------------------------------------------
(* C12 *)

\* the stored crc8_full is the CRC of the rest of the image
OuterCrcHolds(m) == m[OffCrc8Full + 1] = calculate_crc_full(m)

----------------------------------------------------------------------------
(* C13 *)

\* the classes of the registry that come before class c in its family
EarlierInFamily(c) ==
    {d \in AtomNames : /\ AtomClass[d].format = AtomClass[c].format
                       /\ AtomClass[d].ORDER < AtomClass[c].ORDER}

\* the type bytes the registry loop gives the classes that the table names
TypeTable ==
    [c \in {"DesignerID", "ManufacturerID", "ProductID", "ProductVersion",
            "PCBRepository", "PCBLicense", "PCBProductionBatchID", "EEPROMTotalSize"} |->
        CASE c = "DesignerID"           -> 17
          [] c = "ManufacturerID"       -> 18
          [] c = "ProductID"            -> 19
          [] c = "ProductVersion"       -> 1
          [] c = "PCBRepository"        -> 33
          [] c = "PCBLicense"           -> 65
          [] c = "PCBProductionBatchID" -> 49
          [] c = "EEPROMTotalSize"      -> 81]

\* the type bytes of the table as the claim states them
StatedTypeTable ==
    [c \in DOMAIN TypeTable |->
        CASE c = "DesignerID"           -> 16
          [] c = "ManufacturerID"       -> 17
          [] c = "ProductID"            -> 18
          [] c = "ProductVersion"       -> 1
          [] c = "PCBRepository"        -> 32
          [] c = "PCBLicense"           -> 64
          [] c = "PCBProductionBatchID" -> 48
          [] c = "EEPROMTotalSize"      -> 80]

\* every stored atom carries the type byte that table gives its class
StoredTypesFollow(table) ==
    \A i \in Indexes(mem) :
        (stored(mem, i).ok /\ stored(mem, i).cls \in DOMAIN table) =>
            stored_type(mem, i) = table[stored(mem, i).cls]

\* C13 as amended: every registered class has a type byte of its own, whose
\* high nibble is the code of its family and whose low nibble is its index
\* in the family counted from 1; the types are Designer 0x11, Manufacturer
\* 0x12, Product ID 0x13, Product Version 0x01, PCB Repository 0x21, PCB
\* License 0x41, PCB Production Batch 0x31, EEPROM Total Size 0x51, and a
\* stored atom carries the type byte of its class
C13_type_bytes ==
    /\ \A c \in AtomNames : \A d \in AtomNames :
           AtomClass[c].TYPE = AtomClass[d].TYPE => c = d
    /\ \A c \in AtomNames :
           /\ AtomClass[c].TYPE \div 16 = FORMAT[AtomClass[c].format] \div 16
           /\ AtomClass[c].TYPE % 16 = Cardinality(EarlierInFamily(c)) + 1
    /\ \A c \in DOMAIN TypeTable : AtomClass[c].TYPE = TypeTable[c]
    /\ StoredTypesFollow(TypeTable)
    /\ Accepted => last.atom.buf[1] = AtomClass[last.atom.cls].TYPE

\* C13: a ManufacturerID atom is stored with the type byte 0x12 and a
\* PCBRepository atom with 0x21
C13_witness ==
    /\ Accepted
    /\ f_atoms(kind, mem) = 2
    /\ stored(mem, 0).ok
    /\ stored(mem, 0).cls = "ManufacturerID"
    /\ stored_type(mem, 0) = 18
    /\ stored(mem, 1).ok
    /\ stored(mem, 1).cls = "PCBRepository"
    /\ stored_type(mem, 1) = 33

\* C13 as stated: the types are Designer 0x10, Manufacturer 0x11, Product ID
\* 0x12, Product Version 0x01, PCB Repository 0x20, PCB License 0x40, PCB
\* Production Batch 0x30, EEPROM Total Size 0x50
C13_stated_table ==
    /\ \A c \in DOMAIN StatedTypeTable : AtomClass[c].TYPE = StatedTypeTable[c]
    /\ StoredTypesFollow(StatedTypeTable)

----------------------------------------------------------------------------
(* C14 *)

\* the fields of an empty TOFE container but its crc8 byte, in order: magic,
\* version, atoms; then _len and the trailer
EmptyTOFE(m) ==
    /\ SubSeq(m, 1, OffCrc8) = <<84, 79, 70, 69, 0, 1, 0>>
    /\ SubSeq(m, OffCrc8 + 2, Len(m)) = <<5, 0, 0, 0, 0, 69, 70, 79, 84>>

\* C14 as amended: a freshly constructed TOFEAtoms container is 17 bytes:
\* 'TOFE\0', version 0x01, atoms 0x00, the crc byte (0x8C), the length
\* 05 00 00 00 and the trailer '\0EFOT'; crc_check() holds on it
C14_empty_container ==
    (kind = "TOFEAtoms" /\ last.op = "new") =>
        /\ Len(mem) = 17
        /\ EmptyTOFE(mem)
        /\ mem[OffCrc8 + 1] = 140
        /\ crc_check(kind, mem)

\* C14: a TOFEAtoms container as its constructor left it
C14_witness ==
    kind = "TOFEAtoms" /\ last.op = "new" /\ added = <<>> /\ Len(mem) = 17

\* C14 as stated: the fresh container is 13 bytes with those fields
C14_thirteen_bytes ==
    (kind = "TOFEAtoms" /\ last.op = "new") =>
        /\ Len(mem) = 13
        /\ EmptyTOFE(mem)
        /\ crc_check(kind, mem)

----------------------------------------------------------------------------
(* C15 *)

\* the offsets at which two memories of one length differ
Changed(m1, m2) == {o \in 0..(Len(m2) - 1) : m1[o + 1] # m2[o + 1]}

\* the offsets of the bytes crc_calculate reads: as_bytearray() but crc8
Covered(k, m) ==
    {o \in Base(k)..(Base(k) + sizeof(k, m) - 1) : o # Base(k) + OffCrc8}

\* C15: on a record whose crc8 matches crc_calculate(), a store to one byte
\* that crc_calculate reads makes crc_check() false, and a store to the crc8
\* byte leaves crc_calculate() as it was; on an image whose crc8_full matches
\* calculate_crc_full(), a store to one byte other than crc8_full makes the
\* two differ, and a store to crc8_full leaves calculate_crc_full() as it was
C15_single_byte_detected ==
    last.op = "store" =>
        /\ (crc_check(kind, prev) /\ Changed(prev, mem) \subseteq Covered(kind, prev))
               => ~crc_check(kind, mem)
        /\ Changed(prev, mem) = {Base(kind) + OffCrc8}
               => crc_calculate(kind, mem) = crc_calculate(kind, prev)
        /\ (~Owns(kind) /\ OuterCrcHolds(prev) /\ Changed(prev, mem) # {OffCrc8Full})
               => ~OuterCrcHolds(mem)
        /\ (~Owns(kind) /\ Changed(prev, mem) = {OffCrc8Full})
               => calculate_crc_full(mem) = calculate_crc_full(prev)

\* C15: one byte of the embedded record of a populated image, whose two CRCs
\* both matched, has been overwritten
C15_witness ==
    /\ last.op = "store"
    /\ kind = "OpsisAtoms"
    /\ Len(added) = 13
    /\ crc_check(kind, prev)
    /\ OuterCrcHolds(prev)
    /\ Cardinality(Changed(prev, mem)) = 1
    /\ Changed(prev, mem) \subseteq Covered(kind, prev)
    /\ ~crc_check(kind, mem)
    /\ ~OuterCrcHolds(mem)

----------------------------------------------------------------------------
(* C16 *)

\* C16 as stated: AtomFormatExpandInt.create(v) gives a payload of 0 to 8
\* bytes, empty exactly when v = 0 and else with a last byte that is not
\* zero, and the v getter returns v
C16_minimal_up_to_eight_bytes ==
    last.op = "AtomFormatExpandInt.create" =>
        /\ last.ok
        /\ atom_len(last.atom) \in 0..8
        /\ atom_len(last.atom) = 0 <=> added[1] = int_of(0)
        /\ atom_len(last.atom) > 0 => atom_data(last.atom)[atom_len(last.atom)] # 0
        /\ get_v(last.atom) = added[1]

----------------------------------------------------------------------------
(* C17 *)

\* v < 2**e
Below(v, e) == int_lt(v, int_or_byte(int_of(0), 1, e \div 8))

\* C17: for offset and size both below 2**32, AtomFormatSizeOffset.create
\* gives a payload of 2 bytes when both are below 2**8, else of 4 when both
\* are below 2**16, else of 8, and the offset and size getters return the
\* arguments; on a size/offset atom whose len is not 2, 4 or 8 both getters
\* raise
C17_narrowest_width ==
    /\ (/\ last.op = "AtomFormatSizeOffset.create"
        /\ Below(added[1], 32)
        /\ Below(added[2], 32)) =>
           /\ last.ok
           /\ atom_len(last.atom) =
                  IF Below(added[1], 8) /\ Below(added[2], 8) THEN 2
                  ELSE IF Below(added[1], 16) /\ Below(added[2], 16) THEN 4
                  ELSE 8
           /\ get_offset(last.atom) = [ok |-> TRUE, v |-> added[1]]
           /\ get_size(last.atom) = [ok |-> TRUE, v |-> added[2]]
    /\ (/\ last.atom.ok
        /\ last.atom.cls = "AtomFormatSizeOffset"
        /\ atom_len(last.atom) \notin {2, 4, 8}) =>
           (~get_offset(last.atom).ok /\ ~get_size(last.atom).ok)

\* C17: create(2**32 - 1, 700) has picked the widest struct
C17_witness ==
    /\ last.op = "AtomFormatSizeOffset.create"
    /\ added = <<(<<65535, 65535>>), int_of(700)>>
    /\ last.ok
    /\ mem = <<255, 8, 255, 255, 255, 255, 188, 2, 0, 0>>
    /\ get_size(last.atom).v = int_of(700)

----------------------------------------------------------------------------
(* C18 *)

\* C18 as stated: for a member other than Invalid and Proprietary, the atom
\* AtomFormatLicense.create makes has one payload byte, whose bits 0..4 are
\* the family and bits 5..7 the version the member was declared with, and
\* the value getter returns the member
C18_family_in_low_bits ==
    (last.op = "AtomFormatLicense.create" /\ added[1] \notin {"Invalid", "Proprietary"}) =>
        /\ last.ok
        /\ Len(mem) = 3
        /\ mem[2] = 1
        /\ get_value(last.atom) = [ok |-> TRUE, name |-> added[1]]
        /\ \E license \in 0..31, version \in 0..7 :
               /\ Names[added[1]] = _l(license, version)
               /\ _parts(last.atom) = [license |-> license, version |-> version]

----------------------------------------------------------------------------
(* C19 *)

\* the atom offered to add_atom is not below the last one get_atom returns
OrderAllows(m, a) ==
    f_atoms(kind, m) > 0 =>
        /\ compared(m).ok
        /\ AtomClass[a.cls].ORDER >= AtomClass[compared(m).cls].ORDER

\* a relative URL refers to an index below the atoms field
IndexAllows(m, a) == isRelativeURL(a.cls) => a.buf[3] < f_atoms(kind, m)

\* the container can take Len(a.buf) bytes more: one that owns its memory is
\* resized, the embedded one has to hold them already
Fits(m, a) == Owns(kind) \/ OffData + len(kind, m) + Len(a.buf) <= sizeof(kind, m)

----------------------------------------------------------------------------
(* C20 *)

\* the type byte of the atom the loop of get_atom(i) stops at
TypeAt(m, i) == Rd(m, Base(kind) + OffData + walk(kind, m, i))

\* the index get_atom(i) recurses to: the index byte of the atom the loop
\* stops at when that atom is a relative URL, Wild when it is none
ParentAt(m, i) ==
    IF walk(kind, m, i) = Wild \/ TypeAt(m, i) \notin DOMAIN ATOMS_TYPES THEN Wild
    ELSE IF ~isRelativeURL(ATOMS_TYPES[TypeAt(m, i)]) THEN Wild
    ELSE Rd(m, Base(kind) + OffData + walk(kind, m, i) + 2)

\* C20: for every i below the atoms field, get_atom(i) recurses, if at all,
\* to an index below i, so that i + 1 nested calls are enough and get_atom(i)
\* ends with the result it has with any larger allowance of calls
C20_get_atom_descends ==
    \A i \in Indexes(mem) :
        /\ ParentAt(mem, i) < i
        /\ get_atom_rec(kind, mem, i, i + 1) = get_atom(kind, mem, i)

\* C20: a relative URL whose parent is a relative URL is stored, and
\* get_atom(2) has gone through get_atom(1) to get_atom(0)
C20_witness ==
    /\ Accepted
    /\ f_atoms(kind, mem) = 3
    /\ ParentAt(mem, 2) = 1
    /\ ParentAt(mem, 1) = 0
    /\ ParentAt(mem, 0) = Wild
    /\ get_atom(kind, mem, 2).ok
    /\ ~get_atom_rec(kind, mem, 2, 2).ok

----------------------------------------------------------------------------
(* C21 *)

\* the offsets of the image that the embedded container occupies: from magic
\* up to, and without, crc8_full
AtomsRegion == Base("OpsisAtoms")..(OffCrc8Full - 1)

\* C21: an add_atom call on the container embedded in an image, whether it
\* returns or raises, changes no byte of the image outside the container's
\* region (the FX2 header, sep, crc8_full, wp_empty and wp_mac stay as they
\* were), and the declared length of the container is never above 106
C21_add_atom_stays_inside ==
    kind = "OpsisAtoms" =>
        /\ Called => Changed(prev, mem) \subseteq AtomsRegion
        /\ f_len(kind, mem) <= AtomsDataSize

\* C21: after populate one add_atom has filled the container to its 106
\* bytes, and the next has just failed to grow it, changing the atoms byte
C21_witness ==
    /\ kind = "OpsisAtoms"
    /\ Called
    /\ last.err = "resize"
    /\ Len(added) = 14
    /\ f_len(kind, mem) = AtomsDataSize
    /\ Changed(prev, mem) = {Base(kind) + OffAtoms}
    /\ Get(mem, OffWpEmpty, WpEmptySize) = return_fill_buffer(WpEmptySize, 255)

====
